---- MODULE Spec2Model ----
(***************************************************************************)
(* Intel 8080 emulator: the interpreter loop Intel8080::run of             *)
(* src/cpu/intel8080.rs and the instruction routines of                    *)
(* src/cpu/instructions.rs, one action per instruction family.             *)
(*                                                                         *)
(* Representation.                                                         *)
(*  - memory (Vec<u8> of 0x10000 zero bytes) is kept as the function of    *)
(*    its non-zero cells; a cell outside the domain reads 0.               *)
(*  - pc and sp are usize.  A usize value v >= 2^63 is written v - 2^64,   *)
(*    so that usize::MAX is -1; sums and differences of small constants    *)
(*    are then ordinary integer sums and an overflow is a change of sign.  *)
(*  - a Rust panic (index out of bounds in every build, arithmetic         *)
(*    overflow in a build with overflow checks) ends run(): the state is   *)
(*    kept as it was before the instruction, with panicked = TRUE.         *)
(*  - overflow_checks is the build profile: TRUE for a debug build, where  *)
(*    integer overflow panics, FALSE for a release build, where it wraps.  *)
(*  - hist is the list of the states in which each executed instruction    *)
(*    was fetched (a history variable, read by the properties only).       *)
(***************************************************************************)
EXTENDS Integers, Sequences, FiniteSets, TLC

VARIABLES state, overflow_checks, returned, hist, irq

vars == <<state, overflow_checks, returned, hist, irq>>

\* Number of instructions one behaviour executes.
MaxSteps == 2

\* Number of interrupts the host delivers in one behaviour.
MaxIrqs == 2

MemSize == 65536

--------------------------------------------------------------------------
\* Integer helpers

RECURSIVE BitAnd(_, _)
BitAnd(x, y) ==
    IF x = 0 \/ y = 0 THEN 0
    ELSE (x % 2) * (y % 2) + 2 * BitAnd(x \div 2, y \div 2)

RECURSIVE BitOr(_, _)
BitOr(x, y) ==
    IF x = 0 THEN y
    ELSE IF y = 0 THEN x
    ELSE (IF x % 2 = 1 \/ y % 2 = 1 THEN 1 ELSE 0) + 2 * BitOr(x \div 2, y \div 2)

RECURSIVE BitXor(_, _)
BitXor(x, y) ==
    IF x = 0 THEN y
    ELSE IF y = 0 THEN x
    ELSE ((x + y) % 2) + 2 * BitXor(x \div 2, y \div 2)

\* b as u8 for a boolean b
AsU8(b) == IF b THEN 1 ELSE 0

\* (v & 0xff00) >> 8 and v & 0x00ff
MsbOf(v) == (v \div 256) % 256
LsbOf(v) == v % 256

\* ((hi as u16) << 8) | (lo as u16)
Pair(hi, lo) == hi * 256 + lo

RECURSIVE BitCount(_)
BitCount(result) ==
    IF result > 0 THEN 1 + BitCount(BitAnd(result, result - 1)) ELSE 0

parity(result) == AsU8(BitCount(result) % 2 = 0)

--------------------------------------------------------------------------
\* Memory

ValidIndex(i) == i >= 0 /\ i < MemSize

Rd(memory, i) == IF i \in DOMAIN memory THEN memory[i] ELSE 0

Wr(memory, i, v) ==
    IF v = 0
    THEN [j \in (DOMAIN memory) \ {i} |-> memory[j]]
    ELSE [j \in (DOMAIN memory) \cup {i} |-> IF j = i THEN v ELSE memory[j]]

RECURSIVE Load(_, _, _)
Load(memory, base, bytes) ==
    IF bytes = << >> THEN memory
    ELSE Load(Wr(memory, base, Head(bytes)), base + 1, Tail(bytes))

--------------------------------------------------------------------------
\* Machine state

Register == [a |-> 0, b |-> 0, c |-> 0, d |-> 0, e |-> 0, h |-> 0, l |-> 0]

ConditionFlags == [carry |-> 0, aux_carry |-> 0, zero |-> 0, parity |-> 0, sign |-> 0]

Intel8080 ==
    [regs |-> Register, flags |-> ConditionFlags, pc |-> 0, sp |-> 0,
     int_enable |-> 0, memory |-> << >>, panicked |-> FALSE]

Panic(m) == [m EXCEPT !.panicked = TRUE]

AdvancePc(m, n) == IF m.panicked THEN m ELSE [m EXCEPT !.pc = m.pc + n]

HL(m) == Pair(m.regs.h, m.regs.l)

--------------------------------------------------------------------------
\* src/cpu/instructions.rs

\* the four flag assignments shared by the accumulator routines
ResultFlags(m, result) ==
    [m EXCEPT !.flags.carry  = AsU8(result > 255),
              !.flags.zero   = AsU8(BitAnd(result % 256, 255) = 0),
              !.flags.sign   = AsU8(BitAnd(result % 256, 128) # 0),
              !.flags.parity = parity(result)]

\* ... followed by state.regs.a = result as u8
AccuResult(m, result) == [ResultFlags(m, result) EXCEPT !.regs.a = result % 256]

\* an addition that also records the carry out of bit 3
add_with_half_carry(m, byte) ==
    [AccuResult(m, m.regs.a + byte) EXCEPT
        !.flags.aux_carry = AsU8((m.regs.a % 16) + (byte % 16) > 15)]

add_to_accu(m, byte) == AccuResult(m, m.regs.a + byte)

adc(m, byte) == AccuResult(m, m.regs.a + byte + m.flags.carry)

\* the register field a one-letter tag names
Field == [B |-> "b", C |-> "c", D |-> "d", E |-> "e", H |-> "h", L |-> "l", A |-> "a"]

RegTags == {"B", "C", "D", "E", "H", "L", "A"}

SetReg(m, byte, v) == [m EXCEPT !.regs[Field[byte]] = v]

\* the pair a tag names: (high, low) register fields
PairHi == [B |-> "b", D |-> "d", H |-> "h"]
PairLo == [B |-> "c", D |-> "e", H |-> "l"]

PairTags == {"B", "D", "H"}

PairValue(m, byte) == Pair(m.regs[PairHi[byte]], m.regs[PairLo[byte]])

SetPair(m, byte, hi, lo) ==
    [m EXCEPT !.regs[PairHi[byte]] = hi, !.regs[PairLo[byte]] = lo]

\* lxi with the two operand bytes taken in the other order
lxi_swapped(m, byte) ==
    IF ~ValidIndex(m.pc + 2) THEN Panic(m)
    ELSE LET hi == Rd(m.memory, m.pc + 1)
             lo == Rd(m.memory, m.pc + 2)
         IN  CASE byte \in PairTags -> SetPair(m, byte, hi, lo)
               [] byte = "S" -> [m EXCEPT !.sp = Pair(hi, lo)]
               [] OTHER -> m

lxi(m, byte) ==
    IF ~ValidIndex(m.pc + 2) THEN Panic(m)
    ELSE LET hi == Rd(m.memory, m.pc + 2)
             lo == Rd(m.memory, m.pc + 1)
         IN  CASE byte \in PairTags -> SetPair(m, byte, hi, lo)
               [] byte = "S" -> [m EXCEPT !.sp = Pair(hi, lo)]
               [] OTHER -> m

stax(m, byte) ==
    LET addr == IF byte \in {"B", "D"} THEN PairValue(m, byte) ELSE 0
    IN  [m EXCEPT !.memory = Wr(m.memory, addr, m.regs.a)]

mvi(m, byte) ==
    IF ~ValidIndex(m.pc + 1) THEN Panic(m)
    ELSE LET data == Rd(m.memory, m.pc + 1)
         IN  CASE byte \in RegTags -> SetReg(m, byte, data)
               [] byte = "M" -> [m EXCEPT !.memory = Wr(m.memory, HL(m), data)]
               [] OTHER -> m

\* u16 + 1: overflow at 0xffff panics under overflow checks, wraps otherwise
inx(m, byte) ==
    IF byte \notin PairTags THEN m
    ELSE LET value == PairValue(m, byte) + 1
         IN  IF value > 65535 /\ overflow_checks THEN Panic(m)
             ELSE SetPair(m, byte, MsbOf(value % 65536), LsbOf(value % 65536))

\* the flags are set from the outer `result`; the 'M' arm declares its own
\* `result`, so the outer one stays 0 there
inr(m, byte) ==
    LET result == IF byte \in RegTags THEN m.regs[Field[byte]] + 1 ELSE 0
        stored ==
            CASE byte \in RegTags -> SetReg(m, byte, result % 256)
              [] byte = "M" ->
                   [m EXCEPT !.memory = Wr(m.memory, HL(m), (Rd(m.memory, HL(m)) + 1) % 256)]
              [] OTHER -> m
    IN  [stored EXCEPT !.flags.zero   = AsU8(BitAnd(result % 256, 255) = 0),
                       !.flags.sign   = AsU8(BitAnd(result % 256, 128) # 0),
                       !.flags.parity = parity(result)]

\* register arms compute in i16 (no overflow); the 'M' arm computes its own
\* `result` in u16, which overflows when the cell holds 0
dcr(m, byte) ==
    LET result == IF byte \in RegTags THEN m.regs[Field[byte]] - 1 ELSE 0
        stored ==
            CASE byte \in RegTags -> SetReg(m, byte, result % 256)
              [] byte = "M" ->
                   [m EXCEPT !.memory = Wr(m.memory, HL(m), (Rd(m.memory, HL(m)) - 1) % 256)]
              [] OTHER -> m
    IN  IF byte = "M" /\ Rd(m.memory, HL(m)) = 0 /\ overflow_checks THEN Panic(m)
        ELSE [stored EXCEPT !.flags.zero   = AsU8(BitAnd(result % 256, 255) = 0),
                            !.flags.sign   = AsU8(BitAnd(result % 256, 128) # 0),
                            !.flags.parity = parity(result % 65536)]

\* u32 arithmetic; the 'H' and 'S' arms declare their own `result`, so the
\* carry is computed from the outer one, which stays 0 there.  (sp as u32)
\* keeps the low 32 bits of sp: for sp written as a negative number the sum
\* overflows u32 exactly when sp + hl >= 0.
dad(m, byte) ==
    LET hl == HL(m)
        sum == CASE byte \in {"B", "D"} -> PairValue(m, byte) + hl
                 [] byte = "H" -> hl * 2
                 [] byte = "S" -> m.sp + hl
                 [] OTHER -> 0
        result == IF byte \in {"B", "D"} THEN sum ELSE 0
        stored == IF byte \in {"B", "D", "H", "S"}
                  THEN [m EXCEPT !.regs.h = MsbOf(sum % 65536), !.regs.l = LsbOf(sum % 65536)]
                  ELSE m
    IN  IF byte = "S" /\ m.sp < 0 /\ sum >= 0 /\ overflow_checks THEN Panic(m)
        ELSE [stored EXCEPT !.flags.carry = AsU8(result > 65535)]

ldax(m, byte) ==
    LET addr == IF byte \in {"B", "D"} THEN PairValue(m, byte) ELSE 0
    IN  [m EXCEPT !.regs.a = Rd(m.memory, addr)]

\* u16 - 1: overflow at 0 panics under overflow checks, wraps otherwise
dcx(m, byte) ==
    IF byte \notin PairTags THEN m
    ELSE LET value == PairValue(m, byte) - 1
         IN  IF value < 0 /\ overflow_checks THEN Panic(m)
             ELSE SetPair(m, byte, MsbOf(value % 65536), LsbOf(value % 65536))

mov_m(m, byte) ==
    IF byte \in RegTags
    THEN [m EXCEPT !.memory = Wr(m.memory, HL(m), m.regs[Field[byte]])]
    ELSE m

\* u8 - u8, then widened: the difference overflows u8 when byte > a
sub_accu(m, byte) ==
    IF m.regs.a < byte /\ overflow_checks THEN Panic(m)
    ELSE AccuResult(m, (m.regs.a - byte) % 256)

\* u16 - u16; zero and sign are tested on the 16-bit value
sbb(m, byte) ==
    LET diff == m.regs.a - (byte + m.flags.carry)
        result == diff % 65536
    IN  IF diff < 0 /\ overflow_checks THEN Panic(m)
        ELSE [m EXCEPT !.flags.carry  = AsU8(result > 255),
                       !.flags.zero   = AsU8(BitAnd(result, 65535) = 0),
                       !.flags.sign   = AsU8(BitAnd(result, 32768) # 0),
                       !.flags.parity = parity(result),
                       !.regs.a = result % 256]

ana(m, byte) == AccuResult(m, BitAnd(m.regs.a, byte))

xra(m, byte) == AccuResult(m, BitXor(m.regs.a, byte))

ora(m, byte) == AccuResult(m, BitOr(m.regs.a, byte))

\* u16 - u16; the result is stored into the accumulator
cmp(m, byte) ==
    IF m.regs.a < byte /\ overflow_checks THEN Panic(m)
    ELSE AccuResult(m, (m.regs.a - byte) % 65536)

\* memory[sp] and memory[sp + 1] are read, then sp += 2
pop(m, byte) ==
    IF ~ValidIndex(m.sp) \/ ~ValidIndex(m.sp + 1) THEN Panic(m)
    ELSE LET lo == Rd(m.memory, m.sp)
             hi == Rd(m.memory, m.sp + 1)
             popped ==
                 CASE byte = "B" -> [m EXCEPT !.regs.c = lo, !.regs.b = hi]
                   [] byte = "D" -> [m EXCEPT !.regs.e = lo, !.regs.d = hi]
                   [] byte = "H" -> [m EXCEPT !.regs.h = lo, !.regs.l = hi]
                   [] byte = "P" -> ResultFlags([m EXCEPT !.regs.a = hi], lo)
                   [] OTHER -> m
         IN  [popped EXCEPT !.sp = m.sp + 2]

\* state.flags.zero | sign << 1 | parity << 2 | carry << 3 | aux_carry << 4 in u8
PswByte(flags) ==
    BitOr(flags.zero,
      BitOr((flags.sign * 2) % 256,
        BitOr((flags.parity * 4) % 256,
          BitOr((flags.carry * 8) % 256, (flags.aux_carry * 16) % 256))))

\* memory[sp - 1] and memory[sp - 2] are written, then sp -= 2
push(m, byte) ==
    IF ~ValidIndex(m.sp - 1) \/ ~ValidIndex(m.sp - 2) THEN Panic(m)
    ELSE LET hi == CASE byte \in PairTags -> m.regs[PairHi[byte]]
                     [] byte = "P" -> m.regs.a
                     [] OTHER -> 0
             lo == CASE byte \in PairTags -> m.regs[PairLo[byte]]
                     [] byte = "P" -> PswByte(m.flags)
                     [] OTHER -> 0
         IN  IF byte \in PairTags \cup {"P"}
             THEN [m EXCEPT !.memory = Wr(Wr(m.memory, m.sp - 1, hi), m.sp - 2, lo),
                            !.sp = m.sp - 2]
             ELSE [m EXCEPT !.sp = m.sp - 2]

\* rst that stores the address of the RST itself
rst_own_address(m, code) ==
    LET addr == m.pc
    IN  IF ~ValidIndex(m.sp - 1) \/ ~ValidIndex(m.sp - 2) THEN Panic(m)
        ELSE [m EXCEPT !.memory = Wr(Wr(m.memory, m.sp - 1, MsbOf(addr)), m.sp - 2, LsbOf(addr)),
                       !.pc = code * 8,
                       !.sp = m.sp - 2]

rst(m, code) ==
    LET addr == m.pc + 1
    IN  IF ~ValidIndex(m.sp - 1) \/ ~ValidIndex(m.sp - 2) THEN Panic(m)
        ELSE [m EXCEPT !.memory = Wr(Wr(m.memory, m.sp - 1, MsbOf(addr)), m.sp - 2, LsbOf(addr)),
                       !.pc = code * 8,
                       !.sp = m.sp - 2]

--------------------------------------------------------------------------
\* src/cpu/intel8080.rs: the arms of the match in Intel8080::run

\* operand position B C D E H L M A of the low three opcode bits
TagOf == <<"B", "C", "D", "E", "H", "L", "M", "A">>

SrcTag(opcode) == TagOf[(opcode % 8) + 1]
DstTag(opcode) == TagOf[((opcode \div 8) % 8) + 1]

\* the byte an arm passes to an accumulator routine: a register, or memory[HL]
Operand(m, tag) == IF tag = "M" THEN Rd(m.memory, HL(m)) ELSE m.regs[Field[tag]]

\* 0x00 NOP and the other arms that only advance pc: the undocumented
\* opcodes, 0xD3 (OUT) and 0xDB (IN)
NopOpcodes == {0, 8, 16, 24, 32, 40, 48, 56, 203, 211, 217, 219, 221, 237, 253}

nop(m) == AdvancePc(m, 1)

\* 0x07
rlc(m) ==
    LET carry == BitAnd(m.regs.a, 128) \div 128
    IN  AdvancePc([m EXCEPT !.regs.a = BitOr((m.regs.a * 2) % 256, carry),
                            !.flags.carry = carry], 1)

\* 0x0F
rrc(m) ==
    LET carry == BitAnd(m.regs.a, 1)
    IN  AdvancePc([m EXCEPT !.regs.a = BitOr(m.regs.a \div 2, (carry * 128) % 256),
                            !.flags.carry = carry], 1)

\* 0x17: the old carry is shifted to bit 7
ral(m) ==
    LET temp == m.flags.carry
        carry == BitAnd(m.regs.a, 128) \div 128
    IN  AdvancePc([m EXCEPT !.regs.a = BitOr((m.regs.a * 2) % 256, (temp * 128) % 256),
                            !.flags.carry = carry], 1)

\* 0x1F
rar(m) ==
    LET temp == m.flags.carry
        carry == BitAnd(m.regs.a, 1)
    IN  AdvancePc([m EXCEPT !.regs.a = BitOr(m.regs.a \div 2, (temp * 128) % 256),
                            !.flags.carry = carry], 1)

\* the address in the two bytes after the opcode
ImmAddr(m) == Pair(Rd(m.memory, m.pc + 2), Rd(m.memory, m.pc + 1))

\* 0x22
shld(m) ==
    IF ~ValidIndex(m.pc + 2) THEN Panic(m)
    ELSE LET addr == ImmAddr(m)
         IN  IF ~ValidIndex(addr + 1) THEN Panic(m)
             ELSE AdvancePc([m EXCEPT !.memory =
                                Wr(Wr(m.memory, addr, m.regs.l), addr + 1, m.regs.h)], 3)

\* 0x2A
lhld(m) ==
    IF ~ValidIndex(m.pc + 2) THEN Panic(m)
    ELSE LET addr == ImmAddr(m)
         IN  IF ~ValidIndex(addr + 1) THEN Panic(m)
             ELSE AdvancePc([m EXCEPT !.regs.l = Rd(m.memory, addr),
                                      !.regs.h = Rd(m.memory, addr + 1)], 3)

\* 0x27: regs.a += 6 is a u8 addition; zero and sign use the masks 0xffff
\* and 0x8000 on the accumulator widened to u16
daa(m) ==
    LET low == (BitAnd(m.regs.a, 15) > 9) \/ (m.flags.aux_carry = 1)
        a1 == IF low THEN (m.regs.a + 6) % 256 ELSE m.regs.a
        aux == IF low THEN 1 ELSE m.flags.aux_carry
        ho_nibble == BitAnd(a1, 240) \div 16
        high == (ho_nibble > 9) \/ (m.flags.carry = 1)
        a2 == IF high THEN BitOr(BitAnd(a1, 15), ((ho_nibble + 6) * 16) % 256) ELSE a1
        cy == IF high THEN 1 ELSE m.flags.carry
    IN  IF low /\ m.regs.a + 6 > 255 /\ overflow_checks THEN Panic(m)
        ELSE AdvancePc([m EXCEPT !.regs.a = a2,
                                 !.flags.aux_carry = aux,
                                 !.flags.carry = cy,
                                 !.flags.zero = AsU8(BitAnd(a2, 65535) = 0),
                                 !.flags.sign = AsU8(BitAnd(a2, 32768) # 0),
                                 !.flags.parity = parity(a2)], 1)

\* 0x2F
cma(m) == AdvancePc([m EXCEPT !.regs.a = 255 - m.regs.a], 1)

\* 0x32
sta(m) ==
    IF ~ValidIndex(m.pc + 2) THEN Panic(m)
    ELSE AdvancePc([m EXCEPT !.memory = Wr(m.memory, ImmAddr(m), m.regs.a)], 3)

\* 0x3A
lda(m) ==
    IF ~ValidIndex(m.pc + 2) THEN Panic(m)
    ELSE AdvancePc([m EXCEPT !.regs.a = Rd(m.memory, ImmAddr(m))], 3)

\* 0x33: sp += 1 on usize (no wrap at 0xffff)
inx_sp(m) ==
    IF m.sp = -1 /\ overflow_checks THEN Panic(m)
    ELSE AdvancePc([m EXCEPT !.sp = m.sp + 1], 1)

\* 0x3B: sp -= 1 on usize; 0 - 1 overflows
dcx_sp(m) ==
    IF m.sp = 0 /\ overflow_checks THEN Panic(m)
    ELSE AdvancePc([m EXCEPT !.sp = m.sp - 1], 1)

\* 0x37
stc(m) == AdvancePc([m EXCEPT !.flags.carry = 1], 1)

\* 0x3F: `!` on u8 is the bitwise complement
cmc(m) == AdvancePc([m EXCEPT !.flags.carry = 255 - m.flags.carry], 1)

\* a move that sets the flags from the byte moved, as the ALU routines do
mov_with_flags(m, opcode) ==
    LET dst == DstTag(opcode)
        src == SrcTag(opcode)
        moved == IF dst = "M" THEN mov_m(m, src) ELSE SetReg(m, dst, Operand(m, src))
    IN  AdvancePc(ResultFlags(moved, Operand(m, src)), 1)

\* 0x40..0x7F except 0x76
mov(m, opcode) ==
    LET dst == DstTag(opcode)
        src == SrcTag(opcode)
    IN  IF dst = "M" THEN AdvancePc(mov_m(m, src), 1)
        ELSE AdvancePc(SetReg(m, dst, Operand(m, src)), 1)

\* 0x80..0xBF: the routine the opcode's bits 3..5 select, on the operand
\* its bits 0..2 select
alu(m, opcode) ==
    LET byte == Operand(m, SrcTag(opcode))
        family == (opcode \div 8) % 8
    IN  AdvancePc(CASE family = 0 -> add_to_accu(m, byte)
                    [] family = 1 -> adc(m, byte)
                    [] family = 2 -> sub_accu(m, byte)
                    [] family = 3 -> sbb(m, byte)
                    [] family = 4 -> ana(m, byte)
                    [] family = 5 -> xra(m, byte)
                    [] family = 6 -> ora(m, byte)
                    [] family = 7 -> cmp(m, byte), 1)

\* 0xC6 ADI, 0xCE ACI, 0xD6 SUI, 0xDE SBI, 0xE6 ANI, 0xEE XRI, 0xF6 ORI:
\* written out in the arm, all in u16
alu_imm(m, opcode) ==
    IF ~ValidIndex(m.pc + 1) THEN Panic(m)
    ELSE LET imm == Rd(m.memory, m.pc + 1)
             value == CASE opcode = 198 -> m.regs.a + imm
                        [] opcode = 206 -> m.regs.a + (imm + m.flags.carry)
                        [] opcode = 214 -> m.regs.a - imm
                        [] opcode = 222 -> m.regs.a - (imm + m.flags.carry)
                        [] opcode = 230 -> BitAnd(m.regs.a, imm)
                        [] opcode = 238 -> BitXor(m.regs.a, imm)
                        [] opcode = 246 -> BitOr(m.regs.a, imm)
         IN  IF value < 0 /\ overflow_checks THEN Panic(m)
             ELSE AdvancePc(AccuResult(m, value % 65536), 2)

\* 0xFE: computed in i16, carry by comparison, accumulator not written
cpi(m) ==
    IF ~ValidIndex(m.pc + 1) THEN Panic(m)
    ELSE LET imm == Rd(m.memory, m.pc + 1)
             result == m.regs.a - imm
         IN  AdvancePc([m EXCEPT !.flags.carry  = AsU8(m.regs.a < imm),
                                 !.flags.zero   = AsU8(result = 0),
                                 !.flags.sign   = AsU8(BitAnd(result % 256, 128) # 0),
                                 !.flags.parity = parity(result % 65536)], 2)

\* the flag test written in each conditional arm
RetTest(m, opcode) ==
    CASE opcode = 192 -> m.flags.zero = 0
      [] opcode = 200 -> m.flags.zero = 1
      [] opcode = 208 -> m.flags.carry = 0
      [] opcode = 216 -> m.flags.carry = 1
      [] opcode = 224 -> m.flags.parity = 0
      [] opcode = 232 -> m.flags.parity = 1
      [] opcode = 240 -> m.flags.sign = 0
      [] opcode = 248 -> m.flags.sign = 1

JmpTest(m, opcode) ==
    CASE opcode = 194 -> m.flags.zero = 0
      [] opcode = 202 -> m.flags.zero = 1
      [] opcode = 210 -> m.flags.carry = 0
      [] opcode = 218 -> m.flags.carry = 1
      [] opcode = 226 -> m.flags.parity = 0
      [] opcode = 234 -> m.flags.parity = 1
      [] opcode = 242 -> m.flags.sign = 1
      [] opcode = 250 -> m.flags.sign = 1

CallTest(m, opcode) ==
    CASE opcode = 196 -> m.flags.zero = 0
      [] opcode = 204 -> m.flags.zero = 1
      [] opcode = 212 -> m.flags.carry = 0
      [] opcode = 220 -> m.flags.carry = 1
      [] opcode = 228 -> m.flags.parity = 0
      [] opcode = 236 -> m.flags.parity = 1
      [] opcode = 244 -> m.flags.sign = 0
      [] opcode = 252 -> m.flags.sign = 1

\* 0xC9
ret(m) ==
    IF ~ValidIndex(m.sp) \/ ~ValidIndex(m.sp + 1) THEN Panic(m)
    ELSE [m EXCEPT !.pc = Pair(Rd(m.memory, m.sp + 1), Rd(m.memory, m.sp)),
                   !.sp = m.sp + 2]

\* 0xC0 0xC8 0xD0 0xD8 0xE0 0xE8 0xF0 0xF8
ret_cond(m, opcode) == IF RetTest(m, opcode) THEN ret(m) ELSE AdvancePc(m, 1)

\* 0xC3
jmp(m) ==
    IF ~ValidIndex(m.pc + 2) THEN Panic(m)
    ELSE [m EXCEPT !.pc = ImmAddr(m)]

\* a conditional jump whose not-taken branch skips the opcode only
jmp_cond_short(m, opcode) == IF JmpTest(m, opcode) THEN jmp(m) ELSE AdvancePc(m, 1)

\* 0xC2 0xCA 0xD2 0xDA 0xE2 0xEA 0xF2 0xFA
jmp_cond(m, opcode) == IF JmpTest(m, opcode) THEN jmp(m) ELSE AdvancePc(m, 3)

\* 0xCD: the return address is stored first, the target is read afterwards
call(m) ==
    LET next_instr_addr == m.pc + 3
    IN  IF ~ValidIndex(m.sp - 1) \/ ~ValidIndex(m.sp - 2) THEN Panic(m)
        ELSE LET pushed == [m EXCEPT !.memory =
                               Wr(Wr(m.memory, m.sp - 1, MsbOf(next_instr_addr)),
                                  m.sp - 2, LsbOf(next_instr_addr))]
             IN  IF ~ValidIndex(m.pc + 2) THEN Panic(m)
                 ELSE [pushed EXCEPT !.pc = ImmAddr(pushed), !.sp = m.sp - 2]

\* 0xE4 CPO, 0xEC CPE, 0xF4 CP, 0xFC CM when taken: pc += 3 comes first, the
\* low byte goes to sp - 1 and the high byte to sp - 2, the target is read at
\* the advanced pc; 0xE4 and 0xEC end with sp -= 2, 0xF4 and 0xFC with sp += 2
call_advanced(m, opcode) ==
    LET pc3 == m.pc + 3
    IN  IF ~ValidIndex(m.sp - 1) \/ ~ValidIndex(m.sp - 2) THEN Panic(m)
        ELSE LET pushed == [m EXCEPT !.memory =
                               Wr(Wr(m.memory, m.sp - 1, LsbOf(pc3)), m.sp - 2, MsbOf(pc3)),
                                     !.pc = pc3]
             IN  IF ~ValidIndex(pc3 + 2) THEN Panic(m)
                 ELSE [pushed EXCEPT !.pc = ImmAddr(pushed),
                                     !.sp = IF opcode \in {228, 236} THEN m.sp - 2
                                            ELSE m.sp + 2]

\* 0xC4 0xCC 0xD4 0xDC 0xE4 0xEC 0xF4 0xFC
call_cond(m, opcode) ==
    IF CallTest(m, opcode)
    THEN IF opcode \in {196, 204, 212, 220} THEN call(m) ELSE call_advanced(m, opcode)
    ELSE AdvancePc(m, 3)

\* 0xC7 0xCF 0xD7 0xDF 0xE7 0xEF 0xF7 0xFF: no pc advance after rst
rst_arm(m, opcode) == rst(m, (opcode - 199) \div 8)

\* 0xE3: the top two bytes are read, L is stored at sp + 1 and H at sp
xthl(m) ==
    IF ~ValidIndex(m.sp) \/ ~ValidIndex(m.sp + 1) THEN Panic(m)
    ELSE LET lsb == Rd(m.memory, m.sp)
             msb == Rd(m.memory, m.sp + 1)
         IN  AdvancePc([m EXCEPT !.memory = Wr(Wr(m.memory, m.sp + 1, m.regs.l), m.sp, m.regs.h),
                                 !.regs.l = lsb,
                                 !.regs.h = msb], 1)

\* 0xE9
pchl(m) == [m EXCEPT !.pc = HL(m)]

\* 0xEB: let (d, e) = (regs.d, regs.d)
xchg(m) ==
    LET d == m.regs.d
        e == m.regs.d
    IN  AdvancePc([m EXCEPT !.regs.d = m.regs.h, !.regs.e = m.regs.l,
                            !.regs.h = d, !.regs.l = e], 1)

\* 0xF3
di(m) == AdvancePc([m EXCEPT !.int_enable = 0], 1)

\* 0xFB
ei(m) == AdvancePc([m EXCEPT !.int_enable = 1], 1)

\* 0xF9
sphl(m) == AdvancePc([m EXCEPT !.sp = HL(m)], 1)

--------------------------------------------------------------------------
\* Initial states: Intel8080::new() followed by what a caller does before
\* run(): it loads a program image and sets registers, flags, pc, sp and
\* the interrupt-enable flag through the public fields (as the tests of
\* src/tests.rs do); interrupts are enabled in the flag patterns with
\* parity = 1.

\* accumulator a, operand bytes x and y, and the HL pair
DataVals ==
    { [a |-> 255, x |-> 1,   y |-> 128, h |-> 33,  l |-> 64],
      [a |-> 108, x |-> 46,  y |-> 0,   h |-> 33,  l |-> 64],
      [a |-> 10,  x |-> 5,   y |-> 255, h |-> 33,  l |-> 64],
      [a |-> 5,   x |-> 10,  y |-> 127, h |-> 255, l |-> 255],
      [a |-> 0,   x |-> 0,   y |-> 1,   h |-> 0,   l |-> 0],
      [a |-> 155, x |-> 155, y |-> 62,  h |-> 161, l |-> 123],
      [a |-> 118, x |-> 118, y |-> 118, h |-> 32,  l |-> 0],
      [a |-> 127, x |-> 127, y |-> 254, h |-> 127, l |-> 255] }

FlagVals ==
    { [carry |-> 0, aux_carry |-> 0, zero |-> 0, parity |-> 0, sign |-> 0],
      [carry |-> 1, aux_carry |-> 1, zero |-> 1, parity |-> 1, sign |-> 1],
      [carry |-> 1, aux_carry |-> 0, zero |-> 0, parity |-> 1, sign |-> 0],
      [carry |-> 0, aux_carry |-> 1, zero |-> 1, parity |-> 0, sign |-> 1] }

\* where the program sits, where the stack is, and the address operand
Layouts ==
    { [pc |-> 256,   sp |-> 9216,  target |-> 520],
      [pc |-> 256,   sp |-> 0,     target |-> 520],
      [pc |-> 256,   sp |-> 1,     target |-> 520],
      [pc |-> 256,   sp |-> 65535, target |-> 520],
      [pc |-> 256,   sp |-> 259,   target |-> 520],
      [pc |-> 256,   sp |-> 9216,  target |-> 65535],
      [pc |-> 65533, sp |-> 9216,  target |-> 520],
      [pc |-> 65534, sp |-> 9216,  target |-> 520],
      [pc |-> 65535, sp |-> 9216,  target |-> 520] }

Opcodes == 0 .. 255

HLT == 118

\* encoded length of an instruction of the 8080
ThreeByte == {1, 17, 33, 49, 34, 42, 50, 58,
              194, 195, 202, 210, 218, 226, 234, 242, 250, 203,
              196, 204, 205, 212, 220, 228, 236, 244, 252, 221, 237, 253}
TwoByte == {6, 14, 22, 30, 38, 46, 54, 62,
            198, 206, 214, 222, 230, 238, 246, 254, 211, 219}

InstrLen(opcode) ==
    IF opcode \in ThreeByte THEN 3 ELSE IF opcode \in TwoByte THEN 2 ELSE 1

\* instructions whose address operand is a transfer target
Transfers == {194, 195, 202, 210, 218, 226, 234, 242, 250,
              196, 204, 205, 212, 220, 228, 236, 244, 252}

\* the instruction the program puts after the first one
Follow(opcode) ==
    CASE opcode = 197 -> 193
      [] opcode = 213 -> 209
      [] opcode = 229 -> 225
      [] opcode = 245 -> 241
      [] opcode \in {196, 204, 205, 212, 220, 228, 236, 244, 252} -> 201
      [] opcode = 23 -> 31
      [] opcode = 235 -> 235
      [] opcode = 227 -> 227
      [] OTHER -> HLT

\* a store the loader makes: addresses past the end of memory are not loaded
Poke(memory, i, v) == IF ValidIndex(i) THEN Wr(memory, i, v) ELSE memory

Image(opcode, lay, dat) ==
    LET operand == IF opcode \in ThreeByte
                   THEN <<LsbOf(lay.target), MsbOf(lay.target)>>
                   ELSE <<dat.x, 0>>
        data  == Poke(Poke(Poke(<< >>, Pair(dat.h, dat.l), dat.x), lay.sp, dat.y),
                      lay.sp + 1, dat.x)
        first == Poke(Poke(Poke(data, lay.pc, opcode), lay.pc + 1, operand[1]),
                      lay.pc + 2, operand[2])
        second == Poke(first, lay.pc + InstrLen(opcode), Follow(opcode))
    IN  IF opcode \in Transfers THEN Poke(second, lay.target, Follow(opcode)) ELSE second

Init ==
    /\ \E opcode \in Opcodes, lay \in Layouts, dat \in DataVals, fl \in FlagVals :
          state = [Intel8080 EXCEPT
                     !.regs = [a |-> dat.a, b |-> dat.x, c |-> dat.y, d |-> dat.y,
                               e |-> dat.x, h |-> dat.h, l |-> dat.l],
                     !.flags = fl,
                     !.pc = lay.pc,
                     !.sp = lay.sp,
                     !.int_enable = fl.parity,
                     !.memory = Image(opcode, lay, dat)]
    /\ overflow_checks \in BOOLEAN
    /\ returned = FALSE
    /\ hist = << >>
    /\ irq = << >>

--------------------------------------------------------------------------
\* Intel8080::run: one iteration of the while loop per action

Running == ~returned /\ ~state.panicked

Opcode == Rd(state.memory, state.pc)

\* the loop condition holds and the match selects an arm for one of `opcodes`
Fetch(opcodes) ==
    /\ Running
    /\ Len(hist) < MaxSteps
    /\ ValidIndex(state.pc)
    /\ Opcode \in opcodes

\* the arm runs and leaves the machine in `next`
Step(next) ==
    /\ state' = next
    /\ hist' = Append(hist, state)
    /\ UNCHANGED <<overflow_checks, returned, irq>>

\* memory[self.pc] with pc past the end of the vector
FetchOutOfBounds ==
    /\ Running
    /\ ~ValidIndex(state.pc)
    /\ state' = Panic(state)
    /\ UNCHANGED <<overflow_checks, returned, hist, irq>>

\* the loop condition memory[pc] != 0x76 fails: run() returns
Halt ==
    /\ Running
    /\ ValidIndex(state.pc)
    /\ Opcode = HLT
    /\ returned' = TRUE
    /\ UNCHANGED <<state, overflow_checks, hist, irq>>

\* the pair tag in bits 4..5 of the opcode: B D H, then SP or PSW
RpTag(opcode, last) == <<"B", "D", "H", last>>[((opcode \div 16) % 4) + 1]

Nop ==
    /\ Fetch(NopOpcodes)
    /\ Step(nop(state))

Lxi ==
    /\ Fetch({1, 17, 33, 49})
    /\ Step(AdvancePc(lxi(state, RpTag(Opcode, "S")), 3))

Stax ==
    /\ Fetch({2, 18})
    /\ Step(AdvancePc(stax(state, RpTag(Opcode, "S")), 1))

Ldax ==
    /\ Fetch({10, 26})
    /\ Step(AdvancePc(ldax(state, RpTag(Opcode, "S")), 1))

Inx ==
    /\ Fetch({3, 19, 35, 51})
    /\ Step(IF Opcode = 51 THEN inx_sp(state)
            ELSE AdvancePc(inx(state, RpTag(Opcode, "S")), 1))

Dcx ==
    /\ Fetch({11, 27, 43, 59})
    /\ Step(IF Opcode = 59 THEN dcx_sp(state)
            ELSE AdvancePc(dcx(state, RpTag(Opcode, "S")), 1))

Dad ==
    /\ Fetch({9, 25, 41, 57})
    /\ Step(AdvancePc(dad(state, RpTag(Opcode, "S")), 1))

Inr ==
    /\ Fetch({4, 12, 20, 28, 36, 44, 52, 60})
    /\ Step(AdvancePc(inr(state, DstTag(Opcode)), 1))

Dcr ==
    /\ Fetch({5, 13, 21, 29, 37, 45, 53, 61})
    /\ Step(AdvancePc(dcr(state, DstTag(Opcode)), 1))

Mvi ==
    /\ Fetch({6, 14, 22, 30, 38, 46, 54, 62})
    /\ Step(AdvancePc(mvi(state, DstTag(Opcode)), 2))

Rlc ==
    /\ Fetch({7})
    /\ Step(rlc(state))

Rrc ==
    /\ Fetch({15})
    /\ Step(rrc(state))

Ral ==
    /\ Fetch({23})
    /\ Step(ral(state))

Rar ==
    /\ Fetch({31})
    /\ Step(rar(state))

Shld ==
    /\ Fetch({34})
    /\ Step(shld(state))

Lhld ==
    /\ Fetch({42})
    /\ Step(lhld(state))

Daa ==
    /\ Fetch({39})
    /\ Step(daa(state))

Cma ==
    /\ Fetch({47})
    /\ Step(cma(state))

Sta ==
    /\ Fetch({50})
    /\ Step(sta(state))

Lda ==
    /\ Fetch({58})
    /\ Step(lda(state))

Stc ==
    /\ Fetch({55})
    /\ Step(stc(state))

Cmc ==
    /\ Fetch({63})
    /\ Step(cmc(state))

Mov ==
    /\ Fetch((64 .. 127) \ {HLT})
    /\ Step(mov(state, Opcode))

Add ==
    /\ Fetch(128 .. 135)
    /\ Step(alu(state, Opcode))

Adc ==
    /\ Fetch(136 .. 143)
    /\ Step(alu(state, Opcode))

Sub ==
    /\ Fetch(144 .. 151)
    /\ Step(alu(state, Opcode))

Sbb ==
    /\ Fetch(152 .. 159)
    /\ Step(alu(state, Opcode))

Ana ==
    /\ Fetch(160 .. 167)
    /\ Step(alu(state, Opcode))

Xra ==
    /\ Fetch(168 .. 175)
    /\ Step(alu(state, Opcode))

Ora ==
    /\ Fetch(176 .. 183)
    /\ Step(alu(state, Opcode))

Cmp ==
    /\ Fetch(184 .. 191)
    /\ Step(alu(state, Opcode))

Immediate ==
    /\ Fetch({198, 206, 214, 222, 230, 238, 246})
    /\ Step(alu_imm(state, Opcode))

Cpi ==
    /\ Fetch({254})
    /\ Step(cpi(state))

Rcc ==
    /\ Fetch({192, 200, 208, 216, 224, 232, 240, 248})
    /\ Step(ret_cond(state, Opcode))

Ret ==
    /\ Fetch({201})
    /\ Step(ret(state))

Jcc ==
    /\ Fetch({194, 202, 210, 218, 226, 234, 242, 250})
    /\ Step(jmp_cond(state, Opcode))

Jmp ==
    /\ Fetch({195})
    /\ Step(jmp(state))

Ccc ==
    /\ Fetch({196, 204, 212, 220, 228, 236, 244, 252})
    /\ Step(call_cond(state, Opcode))

Call ==
    /\ Fetch({205})
    /\ Step(call(state))

Pop ==
    /\ Fetch({193, 209, 225, 241})
    /\ Step(AdvancePc(pop(state, RpTag(Opcode, "P")), 1))

Push ==
    /\ Fetch({197, 213, 229, 245})
    /\ Step(AdvancePc(push(state, RpTag(Opcode, "P")), 1))

Rst ==
    /\ Fetch({199, 207, 215, 223, 231, 239, 247, 255})
    /\ Step(rst_arm(state, Opcode))

Xthl ==
    /\ Fetch({227})
    /\ Step(xthl(state))

Pchl ==
    /\ Fetch({233})
    /\ Step(pchl(state))

Xchg ==
    /\ Fetch({235})
    /\ Step(xchg(state))

Di ==
    /\ Fetch({243})
    /\ Step(di(state))

Ei ==
    /\ Fetch({251})
    /\ Step(ei(state))

Sphl ==
    /\ Fetch({249})
    /\ Step(sphl(state))

Next ==
    \/ FetchOutOfBounds \/ Halt
    \/ Nop \/ Lxi \/ Stax \/ Ldax \/ Inx \/ Dcx \/ Dad \/ Inr \/ Dcr \/ Mvi
    \/ Rlc \/ Rrc \/ Ral \/ Rar \/ Shld \/ Lhld \/ Daa \/ Cma \/ Sta \/ Lda
    \/ Stc \/ Cmc \/ Mov
    \/ Add \/ Adc \/ Sub \/ Sbb \/ Ana \/ Xra \/ Ora \/ Cmp \/ Immediate \/ Cpi
    \/ Rcc \/ Ret \/ Jcc \/ Jmp \/ Ccc \/ Call \/ Pop \/ Push \/ Rst
    \/ Xthl \/ Pchl \/ Xchg \/ Di \/ Ei \/ Sphl

Spec == Init /\ [][Next]_vars

--------------------------------------------------------------------------
\* src/space_invaders/mod.rs: the host owns the machine and delivers the
\* keyboard interrupt between instructions.

\* the vector of the keyboard service routine: rst(&mut self.state, 3)
KeyboardVector == 3

\* programs of the host's behaviours: interrupt control, NOP, RET, HLT
HostOpcodes == {0, 201, 243, 251, HLT}

\* the image of Init with a service routine (RET) at the keyboard vector
InitHost ==
    /\ \E opcode \in HostOpcodes, lay \in Layouts, dat \in DataVals, fl \in FlagVals,
          enable \in {0, 1} :
          state = [Intel8080 EXCEPT
                     !.regs = [a |-> dat.a, b |-> dat.x, c |-> dat.y, d |-> dat.y,
                               e |-> dat.x, h |-> dat.h, l |-> dat.l],
                     !.flags = fl,
                     !.pc = lay.pc,
                     !.sp = lay.sp,
                     !.int_enable = enable,
                     !.memory = Poke(Image(opcode, lay, dat), KeyboardVector * 8, 201)]
    /\ overflow_checks \in BOOLEAN
    /\ returned = FALSE
    /\ hist = << >>
    /\ irq = << >>

\* Event::KeyReleased, Key::Left: int_enable = 1, then rst(state, 3).
\* irq[n] is the machine before and after the n-th delivery, and the number
\* of instructions executed before it.
KeyReleasedLeft ==
    /\ Running
    /\ Len(irq) < MaxIrqs
    /\ LET enabled == [state EXCEPT !.int_enable = 1]
           after == rst(enabled, KeyboardVector)
       IN  /\ state' = after
           /\ irq' = Append(irq, [before |-> state, after |-> after, at |-> Len(hist)])
    /\ UNCHANGED <<overflow_checks, returned, hist>>

\* SpaceInvadersMachine::new: the shift register of the cabinet
SpaceInvadersMachine == [lsb_shift |-> 0, msb_shift |-> 0, shift_offset |-> 0]

\* SpaceInvadersMachine::read_in
read_in(self, port) ==
    CASE port = 0 -> 1
      [] port = 1 -> 0
      [] port = 3 -> LET v == self.msb_shift * 256 + self.lsb_shift
                     IN  (v \div (2 ^ (8 - self.shift_offset))) % 256
      [] OTHER -> 0

NextHost ==
    \/ FetchOutOfBounds \/ Halt
    \/ Nop \/ Ret \/ Di \/ Ei
    \/ KeyReleasedLeft

SpecHost == InitHost /\ [][NextHost]_vars

--------------------------------------------------------------------------
\* Properties.  hist[n] is the state in which the n-th executed instruction
\* was fetched; the state it left is hist[n + 1], or `state` for the last.

Executed == Len(hist)

\* the state in which the last executed instruction was fetched, its opcode
Last == hist[Len(hist)]
LastOp == Rd(Last.memory, Last.pc)

After(opcodes) == Executed >= 1 /\ LastOp \in opcodes

\* the last instruction panicked (a failed opcode fetch leaves pc out of range)
Faulted == state.panicked /\ ValidIndex(state.pc)

\* the instruction before the last one
Prior == hist[Len(hist) - 1]
PriorOp == Rd(Prior.memory, Prior.pc)

AfterPair(first, second) ==
    /\ Executed >= 2
    /\ PriorOp \in first
    /\ LastOp \in second

\* number of 1 bits of a byte, and the 8080's parity flag for it
RECURSIVE Ones(_)
Ones(v) == IF v = 0 THEN 0 ELSE (v % 2) + Ones(v \div 2)

EvenParity(v) == IF Ones(v % 256) % 2 = 0 THEN 1 ELSE 0

Bit7(v) == (v \div 128) % 2

\* C1: after ADD with accumulator a and operand b, A = (a+b) mod 256,
\* carry = 1 iff a+b > 255, zero = 1 iff the low byte is 0, sign = bit 7 of
\* the low byte, parity = 1 iff the low byte has an even number of 1 bits.
C1_AddResultAndFlags ==
    After(128 .. 135) =>
        LET a == Last.regs.a
            b == Operand(Last, SrcTag(LastOp))
            low == (a + b) % 256
        IN  /\ ~Faulted
            /\ state.regs.a = low
            /\ state.flags.carry = (IF a + b > 255 THEN 1 ELSE 0)
            /\ state.flags.zero = (IF low = 0 THEN 1 ELSE 0)
            /\ state.flags.sign = Bit7(low)
            /\ state.flags.parity = EvenParity(low)

\* C2: CMP (register or memory operand) leaves the accumulator as it was.
C2_CmpKeepsAccumulator ==
    After(184 .. 191) => state.regs.a = Last.regs.a

\* C3: after SUB with accumulator a and operand b, A = (a-b) mod 256 and
\* carry = 1 iff b > a; the subtraction does not fault.
C3_SubResultAndBorrow ==
    After(144 .. 151) =>
        LET a == Last.regs.a
            b == Operand(Last, SrcTag(LastOp))
        IN  /\ ~Faulted
            /\ state.regs.a = (a - b) % 256
            /\ state.flags.carry = (IF b > a THEN 1 ELSE 0)

\* C4: each of the five flags is 0 or 1 in every reachable state, and CMC
\* turns carry 0 into 1 and carry 1 into 0.
C4_FlagsAreBits ==
    /\ \A f \in {"carry", "aux_carry", "zero", "sign", "parity"} : state.flags[f] \in {0, 1}
    /\ After({63}) => state.flags.carry = 1 - Last.flags.carry

\* C5: PC and SP stay in 0..65535 and no instruction faults: address
\* arithmetic wraps modulo 65536.  A one-byte instruction at 0xFFFF leaves
\* PC = 0; PUSH with SP = 0 writes 0xFFFF and 0xFFFE and leaves SP = 0xFFFE;
\* SHLD 0xFFFF writes H to address 0.
C5_AddressesWrap ==
    /\ state.pc \in 0 .. 65535
    /\ state.sp \in 0 .. 65535
    /\ (After(NopOpcodes) /\ Last.pc = 65535) => state.pc = 0
    /\ (After({197, 213, 229}) /\ Last.sp = 0) =>
           /\ ~Faulted
           /\ state.sp = 65534
           /\ Rd(state.memory, 65535) = Last.regs[PairHi[RpTag(LastOp, "P")]]
           /\ Rd(state.memory, 65534) = Last.regs[PairLo[RpTag(LastOp, "P")]]
    /\ (After({34}) /\ ValidIndex(Last.pc + 2) /\ ImmAddr(Last) = 65535) =>
           /\ ~Faulted
           /\ Rd(state.memory, 65535) = Last.regs.l
           /\ Rd(state.memory, 0) = Last.regs.h

\* C6: for rp in {BC, DE, HL} and 2 <= SP <= 0xFFFF, PUSH rp immediately
\* followed by POP rp restores both registers of the pair and SP; the pushed
\* bytes are the high register at SP-1 and the low register at SP-2.
C6_PushPopRoundTrip ==
    \A rp \in {"B", "D", "H"} :
        LET pushOp == CASE rp = "B" -> 197 [] rp = "D" -> 213 [] rp = "H" -> 229
            popOp  == CASE rp = "B" -> 193 [] rp = "D" -> 209 [] rp = "H" -> 225
        IN  (/\ AfterPair({pushOp}, {popOp})
             /\ Prior.sp >= 2 /\ Prior.sp <= 65535
             /\ Last.pc = Prior.pc + 1) =>
                /\ ~Faulted
                /\ Rd(Last.memory, Prior.sp - 1) = Prior.regs[PairHi[rp]]
                /\ Rd(Last.memory, Prior.sp - 2) = Prior.regs[PairLo[rp]]
                /\ state.regs[PairHi[rp]] = Prior.regs[PairHi[rp]]
                /\ state.regs[PairLo[rp]] = Prior.regs[PairLo[rp]]
                /\ state.sp = Prior.sp

\* C7: PUSH PSW immediately followed by POP PSW restores the accumulator,
\* the five flags and SP.
C7_PushPopPswRoundTrip ==
    (/\ AfterPair({245}, {241})
     /\ Prior.sp >= 2 /\ Prior.sp <= 65535
     /\ Last.pc = Prior.pc + 1) =>
        /\ ~Faulted
        /\ state.regs.a = Prior.regs.a
        /\ state.flags = Prior.flags
        /\ state.sp = Prior.sp

\* C8: for 2 <= SP <= 0xFFFF, CALL addr at address p stores the return
\* address p+3 with its low byte at SP-2 and its high byte at SP-1 and sets
\* PC to the little-endian target in the two bytes after the opcode; a RET
\* executed next at addr leaves PC = p+3 and SP as before the CALL.
C8_CallRetRoundTrip ==
    /\ (After({205}) /\ Last.sp >= 2 /\ Last.sp <= 65535) =>
           LET p == Last.pc
               target == Pair(Rd(Last.memory, (p + 2) % 65536),
                              Rd(Last.memory, (p + 1) % 65536))
           IN  /\ ~Faulted
               /\ state.pc = target
               /\ state.sp = Last.sp - 2
               /\ Rd(state.memory, Last.sp - 2) = LsbOf((p + 3) % 65536)
               /\ Rd(state.memory, Last.sp - 1) = MsbOf((p + 3) % 65536)
    /\ (AfterPair({205}, {201}) /\ Prior.sp >= 2 /\ Prior.sp <= 65535) =>
           /\ ~Faulted
           /\ state.pc = (Prior.pc + 3) % 65536
           /\ state.sp = Prior.sp

\* the condition code in bits 3..5 of a conditional opcode:
\* NZ Z NC C PO PE P M
Condition(opcode, flags) ==
    LET cc == (opcode \div 8) % 8
    IN  CASE cc = 0 -> flags.zero = 0
          [] cc = 1 -> flags.zero = 1
          [] cc = 2 -> flags.carry = 0
          [] cc = 3 -> flags.carry = 1
          [] cc = 4 -> flags.parity = 0
          [] cc = 5 -> flags.parity = 1
          [] cc = 6 -> flags.sign = 0
          [] cc = 7 -> flags.sign = 1

CondCalls == {196, 204, 212, 220, 228, 236, 244, 252}
CondJumps == {194, 202, 210, 218, 226, 234, 242, 250}
CondRets  == {192, 200, 208, 216, 224, 232, 240, 248}

\* jumps, calls, returns, RST and PCHL
ControlTransfers ==
    Transfers \cup CondRets \cup {201, 217, 233}
              \cup {199, 207, 215, 223, 231, 239, 247, 255}

\* C9: a conditional call at p that is taken sets PC to the target in the
\* bytes at p+1 (low) and p+2 (high), decreases SP by 2 and stores p+3 with
\* its low byte at the new SP and its high byte at new SP+1; one that is
\* not taken leaves PC = p+3 and SP and memory unchanged.  (Stated for
\* calls that complete and whose stack cells are not their operand bytes.)
C9_ConditionalCall ==
    (/\ After(CondCalls)
     /\ ~Faulted
     /\ Last.sp >= 2 /\ Last.sp <= 65535
     /\ ValidIndex(Last.pc + 2)
     /\ {Last.sp - 1, Last.sp - 2} \cap {Last.pc + 1, Last.pc + 2} = {}) =>
        LET p == Last.pc
        IN  IF Condition(LastOp, Last.flags)
            THEN /\ state.pc = ImmAddr(Last)
                 /\ state.sp = Last.sp - 2
                 /\ Rd(state.memory, Last.sp - 2) = LsbOf((p + 3) % 65536)
                 /\ Rd(state.memory, Last.sp - 1) = MsbOf((p + 3) % 65536)
            ELSE /\ state.pc = p + 3
                 /\ state.sp = Last.sp
                 /\ state.memory = Last.memory

\* C10: the jump, call and return forms of a condition code test the same
\* flag: NZ/Z zero, NC/C carry, PO/PE parity, P/M sign; JP is taken iff
\* sign = 0 and JM iff sign = 1.  (A jump is taken when PC becomes its
\* target, a call when it pushes, a return when it pops.)
C10_ConditionTests ==
    /\ (After(CondJumps) /\ ~Faulted /\ ValidIndex(Last.pc + 2)) =>
           (Condition(LastOp, Last.flags) <=> state.pc = ImmAddr(Last))
    /\ (After(CondCalls) /\ ~Faulted) =>
           (Condition(LastOp, Last.flags) <=> state.sp # Last.sp)
    /\ (After(CondRets) /\ ~Faulted) =>
           (Condition(LastOp, Last.flags) <=> state.sp = Last.sp + 2)

C12_InterruptDelivery ==
    \A n \in 1 .. Len(irq) :
        LET before == irq[n].before
            after == irq[n].after
        IN  IF before.int_enable = 0
            THEN after = before
            ELSE /\ ~after.panicked
                 /\ after.pc = 8 * KeyboardVector
                 /\ after.sp = (before.sp - 2) % 65536
                 /\ after.int_enable = 0

\* C13: IN p (0xDB, p) leaves in the accumulator the byte the port
\* interface's read returns for port p, OUT p (0xD3, p) hands the
\* accumulator to the port interface's write and keeps it; each advances
\* PC by exactly 2 and changes no flag.
C13_InOut ==
    After({211, 219}) =>
        LET port == Rd(Last.memory, (Last.pc + 1) % 65536)
        IN  /\ ~Faulted
            /\ state.pc = (Last.pc + 2) % 65536
            /\ state.flags = Last.flags
            /\ LastOp = 219 => state.regs.a = read_in(SpaceInvadersMachine, port)
            /\ LastOp = 211 => state.regs.a = Last.regs.a

\* C14: run() returns only at an opcode fetch of 0x76: when it has returned
\* the byte at PC is 0x76; and a 0x76 that is an operand byte stops nothing:
\* after an instruction that is no control transfer and left its own bytes
\* and the next one intact, run() returns with PC past the whole
\* instruction, never on one of its operand bytes.
C14_HaltOnlyAtOpcodeFetch ==
    /\ returned => (ValidIndex(state.pc) /\ Rd(state.memory, state.pc) = HLT)
    /\ (/\ returned
        /\ After(Opcodes \ ControlTransfers)
        /\ \A k \in 0 .. InstrLen(LastOp) :
              Rd(state.memory, Last.pc + k) = Rd(Last.memory, Last.pc + k)) =>
            state.pc = Last.pc + InstrLen(LastOp)

\* C15: INR r leaves r = (v+1) mod 256 and DCR r leaves r = (v-1) mod 256
\* for each register r of A, B, C, D, E, H, L, without faulting; zero, sign
\* and parity are those of the 8-bit result and carry is unchanged.
C15_InrDcrRegister ==
    After({4, 12, 20, 28, 36, 44, 60, 5, 13, 21, 29, 37, 45, 61}) =>
        LET r == Field[DstTag(LastOp)]
            v == Last.regs[r]
            result == IF LastOp % 8 = 4 THEN (v + 1) % 256 ELSE (v - 1) % 256
        IN  /\ ~Faulted
            /\ state.regs[r] = result
            /\ state.flags.zero = (IF result = 0 THEN 1 ELSE 0)
            /\ state.flags.sign = Bit7(result)
            /\ state.flags.parity = EvenParity(result)
            /\ state.flags.carry = Last.flags.carry

\* C16: INR M and DCR M replace the byte m at address HL by (m+1) mod 256
\* and (m-1) mod 256, set zero, sign and parity from the new byte and leave
\* carry unchanged; INR M on 0x7F leaves zero = 0 and sign = 1.
C16_InrDcrMemory ==
    After({52, 53}) =>
        LET addr == HL(Last)
            m == Rd(Last.memory, addr)
            result == IF LastOp = 52 THEN (m + 1) % 256 ELSE (m - 1) % 256
        IN  /\ ~Faulted
            /\ Rd(state.memory, addr) = result
            /\ state.flags.zero = (IF result = 0 THEN 1 ELSE 0)
            /\ state.flags.sign = Bit7(result)
            /\ state.flags.parity = EvenParity(result)
            /\ state.flags.carry = Last.flags.carry

\* C17: after DAD rp (BC, DE, HL or SP), HL = (HL + rp) mod 65536, carry = 1
\* iff HL + rp > 0xFFFF and 0 otherwise, and zero, sign, parity and aux-carry
\* are unchanged.
C17_DadSumAndCarry ==
    (After({9, 25, 41, 57}) /\ Last.sp \in 0 .. 65535) =>
        LET rp == IF LastOp = 57 THEN Last.sp
                  ELSE PairValue(Last, RpTag(LastOp, "S"))
            sum == HL(Last) + rp
        IN  /\ ~Faulted
            /\ HL(state) = sum % 65536
            /\ state.flags.carry = (IF sum > 65535 THEN 1 ELSE 0)
            /\ state.flags.zero = Last.flags.zero
            /\ state.flags.sign = Last.flags.sign
            /\ state.flags.parity = Last.flags.parity
            /\ state.flags.aux_carry = Last.flags.aux_carry

\* C18: INX rp leaves the pair (BC, DE, HL; or SP) equal to (v+1) mod 65536
\* and DCX rp leaves it equal to (v-1) mod 65536, wrapping 0xFFFF to 0x0000
\* and 0x0000 to 0xFFFF without faulting, and neither changes any flag.
C18_InxDcxWrap ==
    (After({3, 19, 35, 51, 11, 27, 43, 59}) /\ Last.sp \in 0 .. 65535) =>
        LET tag == RpTag(LastOp, "S")
            Value(m) == IF tag = "S" THEN m.sp ELSE PairValue(m, tag)
            v == Value(Last)
            expected == IF LastOp % 16 = 3 THEN (v + 1) % 65536 ELSE (v - 1) % 65536
        IN  /\ ~Faulted
            /\ Value(state) = expected
            /\ state.flags = Last.flags

\* C19: after XCHG, D and E hold the former H and L and H and L hold the
\* former D and E; two consecutive XCHG restore D, E, H and L.
C19_XchgSwaps ==
    /\ After({235}) =>
          /\ state.regs.d = Last.regs.h
          /\ state.regs.e = Last.regs.l
          /\ state.regs.h = Last.regs.d
          /\ state.regs.l = Last.regs.e
    /\ AfterPair({235}, {235}) =>
          \A r \in {"d", "e", "h", "l"} : state.regs[r] = Prior.regs[r]

\* C20: after XTHL with 0 <= SP <= 0xFFFE, L holds the byte that was at SP
\* and H the byte that was at SP+1, memory[SP] holds the old L and
\* memory[SP+1] the old H, and SP is unchanged; two consecutive XTHL restore
\* H, L and both stack bytes.
C20_XthlSwaps ==
    /\ (After({227}) /\ Last.sp \in 0 .. 65534) =>
          /\ ~Faulted
          /\ state.regs.l = Rd(Last.memory, Last.sp)
          /\ state.regs.h = Rd(Last.memory, Last.sp + 1)
          /\ Rd(state.memory, Last.sp) = Last.regs.l
          /\ Rd(state.memory, Last.sp + 1) = Last.regs.h
          /\ state.sp = Last.sp
    /\ (AfterPair({227}, {227}) /\ Prior.sp \in 0 .. 65534 /\ Last.pc = Prior.pc + 1) =>
          /\ state.regs.h = Prior.regs.h
          /\ state.regs.l = Prior.regs.l
          /\ Rd(state.memory, Prior.sp) = Rd(Prior.memory, Prior.sp)
          /\ Rd(state.memory, Prior.sp + 1) = Rd(Prior.memory, Prior.sp + 1)

\* C21: after ADD or ADC with accumulator a, operand b and incoming carry c
\* (0 for ADD), aux-carry = 1 iff (a mod 16) + (b mod 16) + c > 15, and 0
\* otherwise.
C21_AuxCarryOfAddition ==
    (After(128 .. 143) /\ Last.flags.carry \in {0, 1}) =>
        LET a == Last.regs.a
            b == Operand(Last, SrcTag(LastOp))
            c == IF LastOp >= 136 THEN Last.flags.carry ELSE 0
        IN  state.flags.aux_carry = (IF (a % 16) + (b % 16) + c > 15 THEN 1 ELSE 0)

\* C22: after SBB and after DAA, sign is bit 7 of the byte left in the
\* accumulator and zero is 1 iff that byte is 0.
C22_SbbDaaSignZero ==
    (After((152 .. 159) \cup {39}) /\ ~Faulted) =>
        /\ state.flags.sign = Bit7(state.regs.a)
        /\ state.flags.zero = (IF state.regs.a = 0 THEN 1 ELSE 0)

\* C23: every undocumented opcode leaves the machine as its documented
\* equivalent would from the same state: 0x08 0x10 0x18 0x20 0x28 0x30 0x38
\* as NOP, 0xCB as JMP, 0xD9 as RET, 0xDD 0xED 0xFD as CALL.
C23_UndocumentedAliases ==
    ValidIndex(state.pc) =>
        /\ After({8, 16, 24, 32, 40, 48, 56}) => state = nop(Last)
        /\ After({203}) => state = jmp(Last)
        /\ After({217}) => state = ret(Last)
        /\ After({221, 237, 253}) => state = call(Last)

C25_RstPushesNext ==
    (After({199, 207, 215, 223, 231, 239, 247, 255}) /\ Last.sp \in 2 .. 65535) =>
        LET n == (LastOp - 199) \div 8
            next == (Last.pc + 1) % 65536
        IN  /\ ~Faulted
            /\ state.pc = 8 * n
            /\ state.sp = Last.sp - 2
            /\ Rd(state.memory, state.sp) = next % 256
            /\ Rd(state.memory, state.sp + 1) = next \div 256
            /\ state.regs = Last.regs
            /\ state.flags = Last.flags

\* C25 witness: RST 3 at 0x0100 with SP = 0x2400 has pushed 0x0101
C25_RstTaken ==
    /\ After({223})
    /\ Last.pc = 256 /\ Last.sp = 9216
    /\ state.pc = 24 /\ state.sp = 9214
    /\ Rd(state.memory, 9214) = 1 /\ Rd(state.memory, 9215) = 1

\* MOV (all forms), MVI, STAX, LDAX, SHLD, LHLD, STA, LDA, XTHL, PCHL, XCHG, SPHL
DataMovement ==
    ((64 .. 127) \ {HLT}) \cup {6, 14, 22, 30, 38, 46, 54, 62}
        \cup {2, 18, 10, 26, 34, 42, 50, 58, 227, 233, 235, 249}

\* C26: every data-movement instruction leaves the five flags and the
\* interrupt-enable flag unchanged.
C26_DataMovementKeepsFlags ==
    After(DataMovement) =>
        /\ state.flags = Last.flags
        /\ state.int_enable = Last.int_enable

\* C26 witness: MOV B,C has copied a different byte into B with zero = 1,
\* parity = 1 and interrupts enabled before and after
C26_MovMoved ==
    /\ After({65})
    /\ Last.regs.b # Last.regs.c
    /\ state.regs.b = Last.regs.c
    /\ Last.flags.zero = 1 /\ Last.int_enable = 1
    /\ state.flags = Last.flags /\ state.int_enable = 1

\* C27: RAL puts the old carry into bit 0 of A and the old bit 7 into carry,
\* RAR puts the old carry into bit 7 and the old bit 0 into carry; RAL
\* immediately followed by RAR restores the accumulator and the carry.
C27_RotateThroughCarry ==
    /\ (After({23}) /\ Last.flags.carry \in {0, 1}) =>
          /\ state.regs.a = ((Last.regs.a * 2) % 256) + Last.flags.carry
          /\ state.flags.carry = Bit7(Last.regs.a)
    /\ (After({31}) /\ Last.flags.carry \in {0, 1}) =>
          /\ state.regs.a = (Last.regs.a \div 2) + 128 * Last.flags.carry
          /\ state.flags.carry = Last.regs.a % 2
    /\ (AfterPair({23}, {31}) /\ Prior.flags.carry \in {0, 1}) =>
          /\ state.regs.a = Prior.regs.a
          /\ state.flags.carry = Prior.flags.carry

\* C28: when an interrupt is delivered (interrupts enabled, 2 <= SP) at an
\* instruction boundary with PC = p and the handler at the vector executes
\* RET, execution resumes at exactly p with SP as it was before the delivery.
C28_InterruptReturnsToBoundary ==
    (/\ Len(irq) >= 1
     /\ irq[Len(irq)].before.int_enable = 1
     /\ irq[Len(irq)].before.sp \in 2 .. 65535
     /\ irq[Len(irq)].at = Len(hist) - 1
     /\ Last = irq[Len(irq)].after
     /\ LastOp = 201) =>
        /\ ~state.panicked
        /\ state.pc = irq[Len(irq)].before.pc
        /\ state.sp = irq[Len(irq)].before.sp

\* the machine `m` with the two-byte instruction (opcode, b) at its PC
WithImmediate(m, opcode, b) ==
    [m EXCEPT !.memory = Wr(Wr(m.memory, m.pc, opcode), m.pc + 1, b)]

\* same accumulator and same carry, zero, sign and parity
SameResult(s, t) ==
    /\ s.regs.a = t.regs.a
    /\ \A f \in {"carry", "zero", "sign", "parity"} : s.flags[f] = t.flags[f]

\* C29: from the same accumulator, operand value b and flags, SUB r (r
\* holding b) and SUI b leave the same accumulator, carry, zero, sign and
\* parity, and so do CMP r and CPI b.
C29_RegisterAndImmediateAgree ==
    /\ (After((144 .. 151) \ {150}) /\ ValidIndex(Last.pc + 1)) =>
          SameResult(state,
                     alu_imm(WithImmediate(Last, 214, Operand(Last, SrcTag(LastOp))), 214))
    /\ (After((184 .. 191) \ {190}) /\ ValidIndex(Last.pc + 1)) =>
          SameResult(state,
                     cpi(WithImmediate(Last, 254, Operand(Last, SrcTag(LastOp)))))

\* C30: within run() the aux-carry flag is written by DAA only, and only
\* from 0 to 1: a step that changes it executes DAA, and once it is 1 it is
\* 1 after every later step, whatever instruction executes (ADD, ADC, SUB,
\* SBB and POP PSW included).
C30_AuxCarryOnlyRises ==
    [][/\ state.flags.aux_carry = 1 => state'.flags.aux_carry = 1
       /\ state'.flags.aux_carry # state.flags.aux_carry =>
              /\ Opcode = 39
              /\ state.flags.aux_carry = 0
              /\ state'.flags.aux_carry = 1]_vars

\* C30 witness: DAA on a low nibble above 9 has raised aux-carry from 0 to 1
C30_DaaRaisedAuxCarry ==
    /\ After({39})
    /\ Last.regs.a % 16 > 9
    /\ Last.flags.aux_carry = 0
    /\ state.flags.aux_carry = 1

====
